---- MODULE Spec2Model ----
(***************************************************************************)
(* Model of the Rust load balancer (src/src/main.rs, request.rs,           *)
(* http_health_checks.rs): the shared ProxyState behind a tokio Mutex, the *)
(* health-check task, the acceptor task that awaits handle_connection      *)
(* inline, and connect_to_upstream_server's recursive selection.           *)
(*                                                                         *)
(* The two spawned tasks run on different worker threads (multi-thread     *)
(* runtime), so their steps interleave freely.  A step is the code between *)
(* two blocking points (lock().await, a socket call, sleep().await).       *)
(***************************************************************************)
EXTENDS Integers, Sequences, FiniteSets, TLC

\* ---------------------------------------------------------------- bounds
Addrs == {"a", "b"}
\* the addresses SelSpec draws candidate lists from
SelAddrs == {"a", "b", "c"}

\* longest --upstream list the model configures
MaxUpstreams == 2
\* longest candidate list handed to connect_to_upstream_server in SelSpec
MaxCandidates == 3
\* connections that can wait in the listener's queue at once
MaxPending == 2
\* requests one client sends on one connection
MaxRequests == 2

NONE == "none"

VARIABLES
    upstream_addresses,         \* ProxyState.upstream_addresses
    active_upstream_addresses,  \* ProxyState.active_upstream_addresses
    mutex,                      \* the tokio Mutex: "free", or the task that holds it or was handed it: "health", "conn"
    hc_pc,                      \* health-check task: "lock", "wait", "sweep", "read", "sleep"
    hc_i,                       \* index of the next upstream the sweep probes
    last_sweep,                 \* history: the list the latest finished sweep left (initially the empty list)
    probed,                     \* history: the probes of the sweep in progress, in order
    reach,                      \* environment: upstreams accepting TCP connections now
    pending,                    \* connections waiting in the listener's queue
    acc_pc,                     \* acceptor task / the session it awaits
    upstream_address_list,      \* handle_connection's copy of the active list
    candidates,                 \* connect_to_upstream_server's shrinking argument
    attempts,                   \* addresses connect_to_upstream_server tried, in order
    upstream_stream,            \* address the session is bound to, or NONE
    client_out,                 \* what the session wrote to its client, in order
    upstream_out,               \* requests written to the bound upstream in this session
    n_req,                      \* requests the client sent in this session
    last_exit,                  \* how the most recent session ended
    rq,                         \* ReqSpec: one request on its way through request_controller
    probe,                      \* ProbeSpec: one call of basic_http_health_check
    main_pc                     \* main(): "args", "bind", "spawn_health", "spawn_acceptor", "running", "exit(1)"

vars == <<upstream_addresses, active_upstream_addresses, mutex, hc_pc, hc_i,
          last_sweep, probed, reach, pending, acc_pc, upstream_address_list,
          candidates, attempts, upstream_stream, client_out, upstream_out,
          n_req, last_exit, rq, probe, main_pc>>

registryVars == <<upstream_addresses, active_upstream_addresses>>
healthVars == <<hc_pc, hc_i, last_sweep, probed>>
localVars == <<upstream_address_list, candidates, attempts, upstream_stream, n_req>>
sessionVars == <<localVars, client_out, upstream_out, last_exit>>
proxyVars == <<registryVars, mutex, healthVars, reach, pending, acc_pc, sessionVars, probe, main_pc>>

\* ---------------------------------------------------------------- helpers
Range(s) == {s[i] : i \in 1..Len(s)}

SeqsUpTo(S, n) == UNION {[1..k -> S] : k \in 0..n}

\* faulty variant of RemoveAt: Vec::pop() in place of Vec::remove(index)
RemoveAt_Pop(s, i) == SubSeq(s, 1, Len(s) - 1)

\* Vec::remove(index)
RemoveAt(s, i) == [k \in 1..(Len(s) - 1) |-> IF k < i THEN s[k] ELSE s[k + 1]]

\* iter().position(|x| x == a): index of the first occurrence
Position(s, a) == CHOOSE i \in 1..Len(s) : s[i] = a /\ \A k \in 1..(i - 1) : s[k] # a

\* ---------------------------------------------------------------- tokio Mutex
\* faulty variant of MutexAcquirable: the list is read and written without mutual exclusion
MutexAcquirable_NoExclusion == TRUE

\* shared_state.lock().await completes only when nobody holds the guard
MutexAcquirable == mutex = "free"

\* MutexGuard dropped: the tokio Mutex is fair, the lock passes to the task
\* queued for it if there is one and is free otherwise
HandOver(queued, task) == IF queued THEN task ELSE "free"

\* ---------------------------------------------------------------- health prober
\* The bytes one read of the probe's socket returns, as a sequence of tokens:
\* nothing (the upstream closed), or a status line and the start of a body.
StatusLines == {<<"200", "OK">>, <<"200", "Success">>, <<"500", "Internal Server Error">>}

ResponseBodies == {<<>>, <<"last", " ", "status", ":", " ", "200", " ", "OK">>}

ResponseText(status_line, body) ==
    <<"HTTP/1.1", " ", status_line[1], " ", status_line[2], "\r\n\r\n">> \o body

ProbeResponses ==
    {<<>>} \cup {ResponseText(l, b) : l \in StatusLines, b \in ResponseBodies}

\* str::contains
Contains(text, pattern) ==
    \E i \in 1..(Len(text) - Len(pattern) + 1) :
        SubSeq(text, i, i + Len(pattern) - 1) = pattern

\* simple_get_request: write, one read, then the "200 OK" substring test
simple_get_request(write_ok, read_ok, response) ==
    IF ~write_ok THEN "Err"
    ELSE IF ~read_ok THEN "Err"
    ELSE IF ~Contains(response, <<"200", " ", "OK">>) THEN "Err"
    ELSE "Ok"

\* basic_http_health_check: connect, then simple_get_request
basic_http_health_check(connect_ok, write_ok, read_ok, response) ==
    IF ~connect_ok THEN "Err"
    ELSE simple_get_request(write_ok, read_ok, response)

\* faulty variant of SweepTarget: the sweep walks a hard-coded example list
SweepTarget_Example(i) == <<"a", "b", "a", "b">>[i]

\* the address the sweep's for loop probes at position i
SweepTarget(i) == upstream_addresses[i]

\* faulty variant of PushIfHealthy: the address is pushed whatever the probe said
PushIfHealthy_Always(list, ip, res) == Append(list, ip)

\* main.rs 345-351: match on the probe's result, push on Ok
PushIfHealthy(list, ip, res) == IF res = "Ok" THEN Append(list, ip) ELSE list

\* ---------------------------------------------------------------- health-check task
\* main.rs 336-340: take the lock, then clear the active list
HcLock ==
    /\ \/ hc_pc = "lock" /\ MutexAcquirable
       \/ hc_pc = "wait" /\ mutex = "health"
    /\ mutex' = "health"
    /\ active_upstream_addresses' = <<>>
    /\ hc_pc' = "sweep"
    /\ hc_i' = 1
    /\ UNCHANGED <<rq, probe, main_pc, upstream_addresses, last_sweep, probed, reach, pending,
                   acc_pc, sessionVars>>

\* main.rs 336: the lock is held, lock().await queues the task and suspends it
HcEnqueue ==
    /\ hc_pc = "lock"
    /\ ~MutexAcquirable
    /\ hc_pc' = "wait"
    /\ UNCHANGED <<rq, probe, main_pc, registryVars, mutex, hc_i, last_sweep, probed, reach,
                   pending, acc_pc, sessionVars>>

\* main.rs 343-352: one iteration of the for loop, whose probe returned res
HcProbeReturns(res) ==
    /\ LET ip == SweepTarget(hc_i)
           list == PushIfHealthy(active_upstream_addresses, ip, res)
       IN /\ active_upstream_addresses' = list
          /\ probed' = Append(probed, [ip |-> ip, res |-> res])
          /\ hc_i' = hc_i + 1
          /\ IF hc_i = Len(upstream_addresses)
             THEN /\ hc_pc' = "sleep"
                  /\ last_sweep' = list
             ELSE /\ hc_pc' = "sweep"
                  /\ UNCHANGED last_sweep
    /\ UNCHANGED <<rq, probe, main_pc, upstream_addresses, mutex, reach, pending, acc_pc,
                   sessionVars>>

\* what basic_http_health_check can return when the connect succeeds or
\* fails: every outcome of the write and the read, every response
ProbeResults(connect_ok) ==
    {basic_http_health_check(connect_ok, write_ok, read_ok, response) :
        write_ok \in BOOLEAN, read_ok \in BOOLEAN, response \in ProbeResponses}

\* what simple_get_request can return once the request is written
ReadResults ==
    {simple_get_request(TRUE, read_ok, response) :
        read_ok \in BOOLEAN, response \in ProbeResponses}

\* a probe that runs through without waiting
HcProbe ==
    /\ hc_pc = "sweep"
    /\ hc_i <= Len(upstream_addresses)
    /\ \E res \in ProbeResults(SweepTarget(hc_i) \in reach) : HcProbeReturns(res)

\* http_health_checks.rs 145: the upstream accepted the connection and took
\* the request but has not answered; stream.read has no timeout and blocks
\* the task
HcBlocks ==
    /\ hc_pc = "sweep"
    /\ hc_i <= Len(upstream_addresses)
    /\ SweepTarget(hc_i) \in reach
    /\ hc_pc' = "read"
    /\ UNCHANGED <<rq, probe, main_pc, registryVars, mutex, hc_i, last_sweep, probed, reach,
                   pending, acc_pc, sessionVars>>

\* the upstream answers or closes after all: the blocked read returns
HcRead ==
    /\ hc_pc = "read"
    /\ \E res \in ReadResults : HcProbeReturns(res)

\* main.rs 360-361: the sleep ends, the guard goes out of scope at the end of
\* the loop body (drop(state) before the sleep is commented out)
HcWake ==
    /\ hc_pc = "sleep"
    /\ mutex' = HandOver(acc_pc = "wait", "conn")
    /\ hc_pc' = "lock"
    /\ probed' = <<>>
    /\ UNCHANGED <<rq, probe, main_pc, registryVars, hc_i, last_sweep, reach, pending,
                   acc_pc, sessionVars>>

\* ---------------------------------------------------------------- environment
\* an upstream starts or stops accepting connections
EnvChange ==
    /\ \E a \in Addrs : reach' = IF a \in reach THEN reach \ {a} ELSE reach \cup {a}
    /\ UNCHANGED <<rq, probe, main_pc, registryVars, mutex, healthVars, pending, acc_pc, sessionVars>>

\* main.rs 307: the listening socket exists from TcpListener::bind on
Listening == main_pc \in {"spawn_health", "spawn_acceptor", "running"}

\* a client connects to the listening socket
ClientConnect ==
    /\ Listening
    /\ pending < MaxPending
    /\ pending' = pending + 1
    /\ UNCHANGED <<rq, probe, main_pc, registryVars, mutex, healthVars, reach, acc_pc, sessionVars>>

\* ---------------------------------------------------------------- selection
\* faulty variant of ConnectAttempt: the recursive call gets the list as it was
ConnectAttempt_KeepsEntry(list, i, accepts) ==
    LET upstream_address == list[i]
    IN IF upstream_address \in accepts
       THEN [tag |-> "Ok", addr |-> upstream_address, rest |-> list]
       ELSE [tag |-> "Recurse", addr |-> NONE, rest |-> list]

\* one activation of connect_to_upstream_server whose random choice fell on
\* index i of a non-empty list: TcpStream::connect, then the Err arm
ConnectAttempt(list, i, accepts) ==
    LET upstream_address == list[i]
    IN IF upstream_address \in accepts
       THEN [tag |-> "Ok", addr |-> upstream_address, rest |-> list]
       ELSE IF list = <<>>
       THEN [tag |-> "Err", addr |-> NONE, rest |-> list]
       ELSE [tag |-> "Recurse", addr |-> NONE,
             rest |-> RemoveAt(list, Position(list, upstream_address))]

\* ---------------------------------------------------------------- request.rs
ClientInputs == {"io_error", "closed", "parse_error", "partial_nopath",
                 "partial_path", "partial_full", "complete"}

\* faulty variant of read_client_request: no bytes_read == 0 test, the
\* zero-filled buffer goes to the parser
read_client_request_NoZeroCheck(input, client_write_ok) ==
    CASE input = "io_error" ->
           IF client_write_ok THEN [res |-> "MalformedRequest", out |-> <<"400">>]
           ELSE [res |-> "Panic", out |-> <<>>]
      [] input \in {"closed", "parse_error", "partial_path"} -> [res |-> "Panic", out |-> <<>>]
      [] input = "partial_nopath" -> [res |-> "PartialRequest", out |-> <<>>]
      [] OTHER -> [res |-> "Ok", out |-> <<>>]

\* read_client_request: one read into the 1024-byte buffer, then httparse.
\*   io_error        read() failed: 400 is written here (unwrap) and MalformedRequest returned
\*   closed          read() returned 0 bytes
\*   parse_error     req.parse(&buffer) returned Err: the unwrap panics
\*   partial_nopath  Partial before the path was parsed
\*   partial_path    Partial after the path, an EMPTY_HEADER slot left: the empty
\*                   header name makes the builder fail and body().unwrap() panics
\*   partial_full    Partial after the path with all 16 header slots filled: built like a complete request
\*   complete        a complete request head
read_client_request(input, client_write_ok) ==
    CASE input = "io_error" ->
           IF client_write_ok THEN [res |-> "MalformedRequest", out |-> <<"400">>]
           ELSE [res |-> "Panic", out |-> <<>>]
      [] input = "closed" -> [res |-> "ClientClosedConnection", out |-> <<>>]
      [] input = "parse_error" -> [res |-> "Panic", out |-> <<>>]
      [] input = "partial_nopath" -> [res |-> "PartialRequest", out |-> <<>>]
      [] input = "partial_path" -> [res |-> "Panic", out |-> <<>>]
      [] OTHER -> [res |-> "Ok", out |-> <<>>]

\* faulty variant of request_controller: a failed write to the upstream is
\* followed by a second write of the same request
request_controller_Retry(input, client_write_ok, upstream_write_ok) ==
    LET req == read_client_request(input, client_write_ok)
    IN IF req.res # "Ok" THEN [res |-> req.res, out |-> req.out, sent |-> 0]
       ELSE [res |-> "Ok", out |-> <<>>, sent |-> 1]

\* request_controller: read, rebuild with X-Forwarded-For, write to the upstream
request_controller(input, client_write_ok, upstream_write_ok) ==
    LET req == read_client_request(input, client_write_ok)
    IN IF req.res # "Ok" THEN [res |-> req.res, out |-> req.out, sent |-> 0]
       ELSE IF ~upstream_write_ok THEN [res |-> "ConnectionError", out |-> <<>>, sent |-> 0]
       ELSE [res |-> "Ok", out |-> <<>>, sent |-> 1]

\* no request is being followed (Spec, FairSpec, SelSpec)
NoRequest == [pc |-> "idle"]

\* no single probe is being followed (every specification but ProbeSpec)
NoProbe == [pc |-> "idle"]

\* ---------------------------------------------------------------- acceptor task and session
\* the session's locals go out of scope: the snapshot, the sockets
DropLocals ==
    /\ upstream_address_list' = <<>>
    /\ candidates' = <<>>
    /\ attempts' = <<>>
    /\ upstream_stream' = NONE
    /\ n_req' = 0

\* handle_connection returns: the guard `state` is dropped with the other
\* locals, the acceptor goes back to listener.incoming()
Return(reason) ==
    /\ acc_pc' = "accept"
    /\ mutex' = HandOver(hc_pc = "wait", "health")
    /\ last_exit' = reason
    /\ DropLocals

\* faulty variant of Panic: the unwinding task keeps the lock
Panic_KeepsGuard(reason) ==
    /\ acc_pc' = "panicked"
    /\ mutex' = mutex
    /\ last_exit' = reason
    /\ DropLocals

\* a panic unwinds the acceptor task: the guard and the locals are dropped,
\* the task is gone
Panic(reason) ==
    /\ acc_pc' = "panicked"
    /\ mutex' = HandOver(hc_pc = "wait", "health")
    /\ last_exit' = reason
    /\ DropLocals

\* faulty variant of WriteErrorAndReturn: the session returns without writing
WriteErrorAndReturn_Silent(out, response, write_ok, reason) ==
    /\ client_out' = out
    /\ Return(reason)

\* client_stream.write(response).unwrap(); return
WriteErrorAndReturn(out, response, write_ok, reason) ==
    IF write_ok
    THEN /\ client_out' = Append(out, response)
         /\ Return(reason)
    ELSE /\ client_out' = out
         /\ Panic("panic_client_write")

\* main.rs 370-374: the next connection is taken from the listener and
\* handle_connection is awaited in the acceptor task itself
Accept ==
    /\ acc_pc = "accept"
    /\ pending > 0
    /\ pending' = pending - 1
    /\ acc_pc' = "lock"
    /\ client_out' = <<>>
    /\ upstream_out' = 0
    /\ last_exit' = NONE
    /\ UNCHANGED <<rq, probe, main_pc, registryVars, mutex, healthVars, reach, localVars>>

\* main.rs 211: the lock is held, lock().await queues the acceptor task and
\* suspends it
SessEnqueue ==
    /\ acc_pc = "lock"
    /\ ~MutexAcquirable
    /\ acc_pc' = "wait"
    /\ UNCHANGED <<rq, probe, main_pc, registryVars, mutex, healthVars, reach, pending,
                   sessionVars>>

\* main.rs 211-218: lock, clone the active list, pass a clone to the selection
SessLock ==
    /\ \/ acc_pc = "lock" /\ MutexAcquirable
       \/ acc_pc = "wait" /\ mutex = "conn"
    /\ mutex' = "conn"
    /\ upstream_address_list' = active_upstream_addresses
    /\ candidates' = active_upstream_addresses
    /\ acc_pc' = "connect"
    /\ UNCHANGED <<rq, probe, main_pc, registryVars, healthVars, reach, pending, attempts,
                   upstream_stream, client_out, upstream_out, n_req, last_exit>>

\* main.rs 169-191 and 218-227: one activation of connect_to_upstream_server
\* (choose, connect, remove, recurse) and, when it returns, the match on its result
SessConnect ==
    /\ acc_pc = "connect"
    /\ IF candidates = <<>>
       THEN \* choose() on an empty list is None: the unwrap panics
            /\ Panic("panic_choose")
            /\ UNCHANGED client_out
       ELSE \E i \in 1..Len(candidates), write_ok \in BOOLEAN :
              LET r == ConnectAttempt(candidates, i, reach)
              IN CASE r.tag = "Ok" ->
                        /\ acc_pc' = "request"
                        /\ upstream_stream' = r.addr
                        /\ attempts' = Append(attempts, candidates[i])
                        /\ candidates' = <<>>
                        /\ UNCHANGED <<mutex, client_out, last_exit,
                                       upstream_address_list, n_req>>
                   [] r.tag = "Recurse" ->
                        /\ attempts' = Append(attempts, candidates[i])
                        /\ candidates' = r.rest
                        /\ UNCHANGED <<acc_pc, mutex, client_out, last_exit,
                                       upstream_address_list, upstream_stream, n_req>>
                   [] OTHER ->
                        WriteErrorAndReturn(client_out, "502", write_ok, "no_upstream")
    /\ UNCHANGED <<rq, probe, main_pc, registryVars, healthVars, reach, pending, upstream_out>>

\* main.rs 237-253: request_controller and the match on its result, for one
\* outcome of the client read (input), of the write of 400 inside
\* read_client_request (cw1), of handle_connection's own write (cw2) and of
\* the write to the upstream (uw)
SessRequestOn(input, cw1, cw2, uw) ==
    /\ acc_pc = "request"
    /\ input \in {"complete", "partial_full"} => n_req < MaxRequests
    /\ LET rc == request_controller(input, cw1, uw)
           out == client_out \o rc.out
       IN /\ upstream_out' = upstream_out + rc.sent
          /\ CASE rc.res = "Ok" ->
                    /\ acc_pc' = "response"
                    /\ client_out' = out
                    /\ n_req' = n_req + 1
                    /\ UNCHANGED <<mutex, last_exit, upstream_address_list,
                                   candidates, attempts, upstream_stream>>
               [] rc.res = "ClientClosedConnection" ->
                    /\ client_out' = out
                    /\ Return("client_closed")
               [] rc.res = "ConnectionError" ->
                    /\ client_out' = out
                    /\ Return("connection_error")
               [] rc.res = "Panic" ->
                    /\ client_out' = out
                    /\ Panic(CASE input = "io_error" -> "panic_client_write"
                               [] input = "parse_error" -> "panic_parse"
                               [] OTHER -> "panic_build")
               [] OTHER ->
                    WriteErrorAndReturn(out, "400", cw2, "bad_request")
    /\ UNCHANGED <<rq, probe, main_pc, registryVars, healthVars, reach, pending>>

SessRequest ==
    \E input \in ClientInputs, cw1 \in BOOLEAN, cw2 \in BOOLEAN, uw \in BOOLEAN :
        SessRequestOn(input, cw1, cw2, uw)

\* faulty variant of RelayLoopTarget: a new selection after every response
RelayLoopTarget_Reselect == "connect"

\* main.rs 234, 286: after the flush the loop body starts again at request_controller
RelayLoopTarget == "request"

\* main.rs 257-285: read_to_string from the upstream, write_all and flush to
\* the client, for one outcome of the upstream read and of the client write
SessResponseOn(read_ok, write_ok) ==
    /\ acc_pc = "response"
    /\ IF read_ok
       THEN IF write_ok
            THEN /\ client_out' = Append(client_out, "response")
                 /\ acc_pc' = RelayLoopTarget
                 /\ UNCHANGED <<mutex, last_exit, localVars>>
            ELSE /\ client_out' = client_out
                 /\ Return("client_write_failed")
       ELSE WriteErrorAndReturn(client_out, "502", write_ok, "upstream_read_failed")
    /\ UNCHANGED <<rq, probe, main_pc, registryVars, healthVars, reach, pending, upstream_out>>

SessResponse ==
    \E read_ok \in BOOLEAN, write_ok \in BOOLEAN : SessResponseOn(read_ok, write_ok)

\* ---------------------------------------------------------------- specifications
Init ==
    /\ upstream_addresses \in SeqsUpTo(Addrs, MaxUpstreams) \ {<<>>}
    /\ active_upstream_addresses = <<>>
    /\ mutex = "free"
    /\ hc_pc = "lock"
    /\ hc_i = 1
    /\ last_sweep = <<>>
    /\ probed = <<>>
    /\ reach \in SUBSET Addrs
    /\ pending = 0
    /\ acc_pc = "accept"
    /\ upstream_address_list = <<>>
    /\ candidates = <<>>
    /\ attempts = <<>>
    /\ upstream_stream = NONE
    /\ client_out = <<>>
    /\ upstream_out = 0
    /\ n_req = 0
    /\ last_exit = NONE
    /\ rq = NoRequest
    /\ probe = NoProbe
    /\ main_pc = "running"

Next ==
    \/ HcLock
    \/ HcEnqueue
    \/ HcProbe
    \/ HcBlocks
    \/ HcRead
    \/ HcWake
    \/ EnvChange
    \/ ClientConnect
    \/ Accept
    \/ SessEnqueue
    \/ SessLock
    \/ SessConnect
    \/ SessRequest
    \/ SessResponse

Spec == Init /\ [][Next]_vars

\* The tokio Mutex hands the lock to waiters in FIFO order, the timer fires,
\* connects and probes return; nothing obliges a client to send or an
\* upstream to answer, and the environment is free.
Fairness ==
    /\ SF_vars(HcLock)
    /\ WF_vars(HcEnqueue)
    /\ WF_vars(HcProbe)
    /\ WF_vars(HcWake)
    /\ WF_vars(Accept)
    /\ WF_vars(SessEnqueue)
    /\ SF_vars(SessLock)
    /\ WF_vars(SessConnect)

FairSpec == Init /\ [][Next]_vars /\ Fairness

\* One configured upstream: taking, queueing for and releasing the registry
\* lock do not depend on how many upstreams are configured, and a session
\* still reaches every one of its returns and panics
LockInit == Init /\ Len(upstream_addresses) = 1

LockSpec == LockInit /\ [][Next]_vars /\ Fairness

\* connect_to_upstream_server on its own: every candidate list up to
\* MaxCandidates and every set of accepting upstreams, fixed during the call
SelInit ==
    /\ upstream_address_list \in SeqsUpTo(SelAddrs, MaxCandidates)
    /\ candidates = upstream_address_list
    /\ active_upstream_addresses = upstream_address_list
    /\ upstream_addresses = IF upstream_address_list = <<>> THEN <<"a">>
                            ELSE upstream_address_list
    /\ last_sweep = upstream_address_list
    /\ probed = <<>>
    /\ reach \in SUBSET SelAddrs
    /\ mutex = "conn"
    /\ hc_pc = "lock"
    /\ hc_i = Len(upstream_addresses) + 1
    /\ pending = 0
    /\ acc_pc = "connect"
    /\ attempts = <<>>
    /\ upstream_stream = NONE
    /\ client_out = <<>>
    /\ upstream_out = 0
    /\ n_req = 0
    /\ last_exit = NONE
    /\ rq = NoRequest
    /\ probe = NoProbe
    /\ main_pc = "running"

SelNext == SessConnect

SelSpec == SelInit /\ [][SelNext]_vars

\* ------------------------------------------------- the request data path
\* One request on its way through request_controller: the bytes the client
\* sent, the request read_client_request builds from them, the request
\* client_request_builder makes of it, and what write_to_stream puts on the
\* upstream socket.  Header values, the body and the request line are
\* sequences of tokens, so that formatting is concatenation.

MaxHeaders == 3

Methods == {"GET", "POST"}
Targets == {"/", "/x"}
Versions == {"HTTP/1.0", "HTTP/1.1"}
Bodies == {<<>>, <<"data">>}

\* header lines a client may send
HeaderLines ==
    { [name |-> "Host", value |-> <<"h">>],
      [name |-> "X-Forwarded-For", value |-> <<"1.2.3.4">>],
      [name |-> "x-forwarded-for", value |-> <<"9.9.9.9">>] }

\* the peers of the client socket
Peers == [ip : {"5.6.7.8"}, port : {"40000", "40001"}]

\* http::HeaderName is stored in lower case
Lower(name) ==
    CASE name = "Host" -> "host"
      [] name = "X-Forwarded-For" -> "x-forwarded-for"
      [] OTHER -> name

\* SocketAddr::to_string()
peer_addr_to_string(peer) == <<peer.ip, ":", peer.port>>

\* faulty variant of HeaderMapAppend: HeaderMap::insert, the new value takes
\* the place of the values the name had
HeaderMapInsert(map, name, value) ==
    IF \E i \in 1..Len(map) : map[i].name = Lower(name)
    THEN [i \in 1..Len(map) |->
             IF map[i].name = Lower(name)
             THEN [name |-> map[i].name, values |-> <<value>>]
             ELSE map[i]]
    ELSE Append(map, [name |-> Lower(name), values |-> <<value>>])

\* request::Builder::header: HeaderMap::append.  The map keeps one entry per
\* lower-case name, in the order the names first came, and each entry keeps
\* its values in the order they came.
HeaderMapAppend(map, name, value) ==
    IF \E i \in 1..Len(map) : map[i].name = Lower(name)
    THEN [i \in 1..Len(map) |->
             IF map[i].name = Lower(name)
             THEN [name |-> map[i].name, values |-> Append(map[i].values, value)]
             ELSE map[i]]
    ELSE Append(map, [name |-> Lower(name), values |-> <<value>>])

\* for header in req.headers { builder = builder.header(name, value) }
RECURSIVE AddHeaders(_, _)
AddHeaders(map, lines) ==
    IF lines = <<>> THEN map
    ELSE AddHeaders(HeaderMapAppend(map, lines[1].name, lines[1].value), Tail(lines))

\* HeaderMap::iter: entry by entry, each entry's values in turn
RECURSIVE HeaderMapIter(_)
HeaderMapIter(map) ==
    IF map = <<>> THEN <<>>
    ELSE [k \in 1..Len(map[1].values) |->
             [name |-> map[1].name, value |-> map[1].values[k]]]
         \o HeaderMapIter(Tail(map))

EmptyRequest ==
    [method |-> "", uri |-> "", version |-> "", headers |-> <<>>, body |-> <<>>]

\* read_client_request on a complete parse: the request built from the parse
ParsedRequest(client) ==
    [method |-> client.method,
     uri |-> client.uri,
     version |-> "HTTP/1.1",
     headers |-> AddHeaders(<<>>, client.headers),
     body |-> <<>>]

client_request_builder(client_ip, req) ==
    [method |-> req.method,
     uri |-> req.uri,
     version |-> "HTTP/1.1",
     headers |-> HeaderMapAppend(AddHeaders(<<>>, HeaderMapIter(req.headers)),
                                 "X-Forwarded-For", client_ip),
     body |-> <<>>]

format_request_line(request) ==
    <<request.method, " ", request.uri, " ", request.version>>

\* the request line, the header lines and the body as written to the stream
write_to_stream(request) ==
    [line |-> format_request_line(request),
     headers |-> HeaderMapIter(request.headers),
     body |-> IF Len(request.body) > 0 THEN request.body ELSE <<>>]

\* a session bound to upstream "a" waits for a request of its client
ReqInit ==
    /\ upstream_addresses = <<"a">>
    /\ active_upstream_addresses = <<"a">>
    /\ last_sweep = <<"a">>
    /\ probed = <<>>
    /\ reach = {"a"}
    /\ mutex = "conn"
    /\ hc_pc = "lock"
    /\ hc_i = Len(upstream_addresses) + 1
    /\ pending = 0
    /\ acc_pc = "request"
    /\ upstream_address_list = <<"a">>
    /\ candidates = <<>>
    /\ attempts = <<"a">>
    /\ upstream_stream = "a"
    /\ client_out = <<>>
    /\ upstream_out = 0
    /\ n_req = 0
    /\ last_exit = NONE
    /\ probe = NoProbe
    /\ main_pc = "running"
    /\ \E peer \in Peers, method \in Methods, uri \in Targets, version \in Versions,
          headers \in SeqsUpTo(HeaderLines, MaxHeaders), body \in Bodies :
          rq = [pc |-> "client",
                peer |-> peer,
                client_ip |-> peer_addr_to_string(peer),
                client |-> [method |-> method, uri |-> uri, version |-> version,
                            headers |-> headers, body |-> body],
                parsed |-> EmptyRequest,
                built |-> EmptyRequest,
                wire |-> [line |-> <<>>, headers |-> <<>>, body |-> <<>>]]

\* request_controller: read_client_request(client_stream)
ReqRead ==
    /\ rq.pc = "client"
    /\ rq' = [rq EXCEPT !.pc = "parsed", !.parsed = ParsedRequest(rq.client)]
    /\ UNCHANGED proxyVars

\* request_controller: client_request_builder(client_ip, &request)
ReqBuild ==
    /\ rq.pc = "parsed"
    /\ rq' = [rq EXCEPT !.pc = "built",
                        !.built = client_request_builder(rq.client_ip, rq.parsed)]
    /\ UNCHANGED proxyVars

\* request_controller: write_to_stream(&parsed_request, upstream_stream)
ReqWrite ==
    /\ rq.pc = "built"
    /\ rq' = [rq EXCEPT !.pc = "written", !.wire = write_to_stream(rq.built)]
    /\ UNCHANGED proxyVars

ReqNext ==
    \/ ReqRead
    \/ ReqBuild
    \/ ReqWrite

ReqSpec == ReqInit /\ [][ReqNext]_vars

\* ------------------------------------------------- startup
\* main() from the parsed command line to the two spawned tasks.  Before
\* they are spawned the tasks are at "unspawned".

\* faulty variant of ArgsAccepted: the upstream list is not looked at
ArgsAccepted_Any(upstream) == TRUE

\* main.rs 301: args.upstream.len() < 1 is the fatal case
ArgsAccepted(upstream) == ~(Len(upstream) < 1)

StartInit ==
    /\ main_pc = "args"
    /\ upstream_addresses \in SeqsUpTo(Addrs, MaxUpstreams)
    /\ active_upstream_addresses = <<>>
    /\ mutex = "free"
    /\ hc_pc = "unspawned"
    /\ hc_i = 1
    /\ last_sweep = <<>>
    /\ probed = <<>>
    /\ reach \in SUBSET Addrs
    /\ pending = 0
    /\ acc_pc = "unspawned"
    /\ upstream_address_list = <<>>
    /\ candidates = <<>>
    /\ attempts = <<>>
    /\ upstream_stream = NONE
    /\ client_out = <<>>
    /\ upstream_out = 0
    /\ n_req = 0
    /\ last_exit = NONE
    /\ rq = NoRequest
    /\ probe = NoProbe

\* main.rs 301-304: no upstream given is an error, exit(1)
MainArgs ==
    /\ main_pc = "args"
    /\ main_pc' = IF ArgsAccepted(upstream_addresses) THEN "bind" ELSE "exit(1)"
    /\ UNCHANGED <<rq, probe, registryVars, mutex, healthVars, reach, pending, acc_pc,
                   sessionVars>>

\* main.rs 307-313: TcpListener::bind, exit(1) when it fails
MainBind ==
    /\ main_pc = "bind"
    /\ \E bind_ok \in BOOLEAN :
         main_pc' = IF bind_ok THEN "spawn_health" ELSE "exit(1)"
    /\ UNCHANGED <<rq, probe, registryVars, mutex, healthVars, reach, pending, acc_pc,
                   sessionVars>>

\* main.rs 333: tokio::spawn of the health-check task
MainSpawnHealth ==
    /\ main_pc = "spawn_health"
    /\ main_pc' = "spawn_acceptor"
    /\ hc_pc' = "lock"
    /\ UNCHANGED <<rq, probe, registryVars, mutex, hc_i, last_sweep, probed, reach,
                   pending, acc_pc, sessionVars>>

\* main.rs 365: tokio::spawn of the acceptor task, then loop {}
MainSpawnAcceptor ==
    /\ main_pc = "spawn_acceptor"
    /\ main_pc' = "running"
    /\ acc_pc' = "accept"
    /\ UNCHANGED <<rq, probe, registryVars, mutex, healthVars, reach, pending,
                   sessionVars>>

StartNext ==
    \/ MainArgs
    \/ MainBind
    \/ MainSpawnHealth
    \/ MainSpawnAcceptor
    \/ Next

StartSpec == StartInit /\ [][StartNext]_vars

\* ------------------------------------------------- one health probe
\* basic_http_health_check on its own: every outcome of the connect, of the
\* write, of the read, and every response the read may return.
ProbeInit ==
    /\ upstream_addresses = <<"a">>
    /\ active_upstream_addresses = <<>>
    /\ last_sweep = <<>>
    /\ probed = <<>>
    /\ mutex = "health"
    /\ hc_pc = "sweep"
    /\ hc_i = 1
    /\ pending = 0
    /\ acc_pc = "accept"
    /\ upstream_address_list = <<>>
    /\ candidates = <<>>
    /\ attempts = <<>>
    /\ upstream_stream = NONE
    /\ client_out = <<>>
    /\ upstream_out = 0
    /\ n_req = 0
    /\ last_exit = NONE
    /\ rq = NoRequest
    /\ main_pc = "running"
    /\ \E connect_ok \in BOOLEAN, write_ok \in BOOLEAN, read_ok \in BOOLEAN,
          response \in ProbeResponses :
          /\ reach = IF connect_ok THEN {"a"} ELSE {}
          /\ probe = [pc |-> "call", connect_ok |-> connect_ok, write_ok |-> write_ok,
                      read_ok |-> read_ok, response |-> response, result |-> NONE]

\* main.rs 345: basic_http_health_check(ip, path) returns
ProbeCall ==
    /\ probe.pc = "call"
    /\ probe' = [probe EXCEPT
                    !.pc = "done",
                    !.result = basic_http_health_check(probe.connect_ok, probe.write_ok,
                                                       probe.read_ok, probe.response)]
    /\ UNCHANGED <<rq, main_pc, registryVars, mutex, healthVars, reach, pending, acc_pc,
                   sessionVars>>

ProbeNext == ProbeCall

ProbeSpec == ProbeInit /\ [][ProbeNext]_vars

\* ---------------------------------------------------------------- claims
InSession == acc_pc \in {"connect", "request", "response"}

\* C1: whenever handle_connection copies the active list, the copy is the
\* complete list the latest finished health sweep left (or the initial list
\* when no sweep has finished), never the cleared or half-filled list of a
\* sweep in progress.
C1_SnapshotIsCompleteSweep ==
    [][SessLock => upstream_address_list' = last_sweep]_vars

\* a session copied a non-empty snapshot that a sweep had completed, with the
\* health-check task back at its lock().await
C1_Witness ==
    /\ acc_pc = "connect"
    /\ attempts = <<>>
    /\ Len(upstream_address_list) = 2
    /\ upstream_address_list = last_sweep
    /\ hc_pc = "lock"

\* C2: every address of active_upstream_addresses is a configured upstream,
\* and upstream_addresses never changes after startup.
C2_ActiveWithinConfigured ==
    /\ [](Range(active_upstream_addresses) \subseteq Range(upstream_addresses))
    /\ [][upstream_addresses' = upstream_addresses]_vars

\* a finished sweep kept an upstream while an address outside the configured
\* list was accepting connections
C2_Witness ==
    /\ hc_pc = "sleep"
    /\ active_upstream_addresses # <<>>
    /\ \E a \in reach : a \notin Range(upstream_addresses)

\* C3: while one session is in progress, a second incoming connection can be
\* accepted.
C3_AcceptDuringSession ==
    ((acc_pc = "lock" \/ InSession) /\ pending > 0) => ENABLED Accept

\* C4: a session does not hold the registry lock during its connect attempts
\* nor during its later reads and writes.
C4_SessionReleasesLock ==
    InSession => mutex # "conn"

\* C5: while a probe is in progress or the refresh task sleeps, a session
\* that wants to copy the snapshot can acquire the lock.
C5_RefreshReleasesLock ==
    (hc_pc \in {"sweep", "sleep"} /\ acc_pc = "lock") => ENABLED SessLock

\* C6: once an upstream stops accepting connections for good, later sweeps
\* complete and the active list stops containing it, whatever clients do.
C6_LivenessConvergence ==
    \A a \in Addrs :
        <>[](a \notin reach) => <>[](a \notin Range(active_upstream_addresses))

\* C7: after a session ended, through a failure or not, the acceptor task is
\* still running.
C7_FailuresAreSessionScoped ==
    last_exit # NONE => acc_pc # "panicked"

SomeCandidateAccepts ==
    \E k \in 1..Len(upstream_address_list) : upstream_address_list[k] \in reach

\* C8: when connect_to_upstream_server has ended without a connection (the
\* list was empty, or every connect failed) it returned an error to its
\* caller, whose Err arm ran; it did not panic.
C8_ExhaustionReturnsError ==
    (acc_pc # "connect" /\ upstream_stream = NONE)
        => last_exit \in {"no_upstream", "panic_client_write"}

\* C9: a session whose selection found no upstream (empty snapshot, or every
\* candidate refused) wrote the 502 response to its client and then ended.
C9_NoUpstreamGets502 ==
    last_exit \in {"no_upstream", "panic_choose"}
        => client_out = <<"502">> /\ acc_pc # "panicked"

\* C10: when some candidate of the list accepts connections, the selection
\* never runs out of accepting candidates and ends bound to a candidate that
\* accepts, never with an error or a panic.
C10_SelectionFailover ==
    SomeCandidateAccepts =>
        /\ acc_pc \in {"connect", "request"}
        /\ acc_pc = "connect" => \E k \in 1..Len(candidates) : candidates[k] \in reach
        /\ acc_pc = "request" =>
              /\ upstream_stream \in reach
              /\ upstream_stream \in Range(upstream_address_list)

\* of three different candidates two refused, the third attempt connected
C10_Witness ==
    /\ acc_pc = "request"
    /\ Cardinality(Range(upstream_address_list)) = 3
    /\ Len(attempts) = 3
    /\ attempts[1] \notin reach
    /\ attempts[2] \notin reach
    /\ upstream_stream = attempts[3]

Last(s) == s[Len(s)]

\* the step wrote exactly one synthetic response to the client and the
\* session returned to the accept loop without writing to the upstream
AnsweredAndEnded(response) ==
    /\ client_out' = Append(client_out, response)
    /\ upstream_out' = upstream_out
    /\ acc_pc' = "accept"

\* C11: when the bytes read from the client do not parse as an HTTP request,
\* the session writes 400 to the client and ends, the acceptor goes on, and
\* nothing is written to the upstream.
C11_ParseErrorGets400 ==
    [][\A cw1 \in BOOLEAN, cw2 \in BOOLEAN, uw \in BOOLEAN :
          SessRequestOn("parse_error", cw1, cw2, uw) => AnsweredAndEnded("400")]_vars

\* C12: a request the parser reports as partial after the single read is
\* answered with 400 and ends the session (the client takes the write), and
\* nothing of it is written to the upstream.
C12_PartialGets400 ==
    [][\A input \in {"partial_nopath", "partial_path", "partial_full"},
          cw1 \in BOOLEAN, uw \in BOOLEAN :
          SessRequestOn(input, cw1, TRUE, uw) => AnsweredAndEnded("400")]_vars

\* C13: when the write of the rewritten request to the upstream fails, the
\* session writes 502 to the client and ends.
C13_UpstreamWriteFailureGets502 ==
    [][\A cw1 \in BOOLEAN, cw2 \in BOOLEAN :
          SessRequestOn("complete", cw1, cw2, FALSE) => AnsweredAndEnded("502")]_vars

C15_ClientCloseIsSilent ==
    [][\A cw1 \in BOOLEAN, cw2 \in BOOLEAN, uw \in BOOLEAN :
          SessRequestOn("closed", cw1, cw2, uw) =>
              /\ client_out' = client_out
              /\ upstream_out' = upstream_out
              /\ acc_pc' = "accept"
              /\ mutex' # "conn"
              /\ last_exit' = "client_closed"]_vars

\* a client closed after one served request
C15_Witness ==
    /\ last_exit = "client_closed"
    /\ client_out = <<"response">>
    /\ upstream_out = 1
    /\ acc_pc = "accept"

\* the values of the X-Forwarded-For lines among header lines, in their order
XForwardedFor(lines) ==
    LET sel == SelectSeq(lines, LAMBDA l : Lower(l.name) = "x-forwarded-for")
    IN [k \in 1..Len(sel) |-> sel[k].value]

\* C16: the request written to the upstream carries every X-Forwarded-For
\* value of the client's request, unchanged and in the same order, followed by
\* exactly one more value, the one the proxy added.
C16_InjectionAppends ==
    rq.pc = "written" =>
        LET orig == XForwardedFor(rq.client.headers)
            sent == XForwardedFor(rq.wire.headers)
        IN /\ Len(sent) = Len(orig) + 1
           /\ SubSeq(sent, 1, Len(orig)) = orig

\* a request with two X-Forwarded-For lines around a Host line was written
C16_Witness ==
    /\ rq.pc = "written"
    /\ rq.client.headers = << [name |-> "X-Forwarded-For", value |-> <<"1.2.3.4">>],
                              [name |-> "Host", value |-> <<"h">>],
                              [name |-> "x-forwarded-for", value |-> <<"9.9.9.9">>] >>
    /\ Len(XForwardedFor(rq.wire.headers)) = 3

\* C17: every request written to the upstream carries the added
\* X-Forwarded-For value, and that value is the IP address of the peer of the
\* client socket and nothing else.
C17_InjectedValueIsClientIp ==
    rq.pc = "written" =>
        /\ XForwardedFor(rq.wire.headers) # <<>>
        /\ Last(XForwardedFor(rq.wire.headers)) = <<rq.peer.ip>>

\* header lines with their names in lower case
LowerNames(lines) ==
    [k \in 1..Len(lines) |-> [name |-> Lower(lines[k].name), value |-> lines[k].value]]

\* header lines without the last X-Forwarded-For line
WithoutInjected(lines) ==
    LET at == {k \in 1..Len(lines) : Lower(lines[k].name) = "x-forwarded-for"}
    IN IF at = {} THEN lines
       ELSE LET last == CHOOSE k \in at : \A j \in at : j <= k
            IN SubSeq(lines, 1, last - 1) \o SubSeq(lines, last + 1, Len(lines))

\* C18: apart from the added X-Forwarded-For line, the request written to
\* the upstream has the method, target, version, header lines (names compared
\* without case) and body of the request the client sent.
C18_RequestOtherwiseUnchanged ==
    rq.pc = "written" =>
        /\ rq.wire.line = <<rq.client.method, " ", rq.client.uri, " ", rq.client.version>>
        /\ WithoutInjected(rq.wire.headers) = LowerNames(rq.client.headers)
        /\ rq.wire.body = rq.client.body

InRelayLoop == acc_pc \in {"request", "response"}

\* C19: a session in its relay loop stays on the upstream socket the
\* selection returned: the socket never changes while the loop runs, a relayed
\* response brings the loop back to reading the next request on the same
\* sockets, and the loop never goes back to selection or connects again.
C19_SessionKeepsUpstream ==
    /\ [](InRelayLoop => upstream_stream # NONE /\ upstream_stream = Last(attempts))
    /\ [][InRelayLoop =>
            /\ acc_pc' \notin {"lock", "connect"}
            /\ InRelayLoop' => upstream_stream' = upstream_stream /\ attempts' = attempts
            /\ SessResponseOn(TRUE, TRUE) => acc_pc' = "request"]_vars

\* after a relayed response the session reads its second request on the
\* upstream the selection found at its second attempt
C19_Witness ==
    /\ acc_pc = "request"
    /\ client_out = <<"response">>
    /\ upstream_out = 1
    /\ Len(attempts) = 2
    /\ upstream_stream = attempts[2]

\* C20: a request is written to the upstream at most once: the count of
\* requests written grows by one and only in the step that reads the request,
\* it equals the number of requests the loop accepted, and after a failed
\* write to the upstream or a failed read of its response the session is over
\* with nothing more written.
C20_NoRetry ==
    /\ [](InRelayLoop => upstream_out = n_req)
    /\ [][/\ upstream_out' # upstream_out =>
                \/ acc_pc = "accept" /\ upstream_out' = 0
                \/ /\ upstream_out' = upstream_out + 1
                   /\ acc_pc = "request"
                   /\ acc_pc' = "response"
          /\ \/ \E cw1 \in BOOLEAN, cw2 \in BOOLEAN : SessRequestOn("complete", cw1, cw2, FALSE)
             \/ \E w \in BOOLEAN : SessResponseOn(FALSE, w)
             => ~InRelayLoop' /\ acc_pc' # "connect" /\ upstream_out' = upstream_out]_vars

\* the session ended on a failed write of its second request, with one
\* request written since it began
C20_Witness ==
    /\ last_exit = "connection_error"
    /\ upstream_out = 1
    /\ client_out = <<"response">>
    /\ acc_pc = "accept"

\* the addresses whose probe returned Ok, in the order they were probed
ProbedHealthy(probes) ==
    LET sel == SelectSeq(probes, LAMBDA p : p.res = "Ok")
    IN [k \in 1..Len(sel) |-> sel[k].ip]

\* C21: a sweep probes the configured upstreams one by one in configured
\* order, each exactly once, and the active list holds exactly the addresses
\* whose probe of this sweep succeeded, in that order: a failed probe leaves
\* only its own address out and nothing of an earlier sweep remains.
C21_SweepReplacesSnapshot ==
    hc_pc \in {"sweep", "read", "sleep"} =>
        /\ Len(probed) = hc_i - 1
        /\ \A k \in 1..Len(probed) : probed[k].ip = upstream_addresses[k]
        /\ active_upstream_addresses = ProbedHealthy(probed)
        /\ hc_pc = "sleep" => Len(probed) = Len(upstream_addresses)

\* a sweep of two upstreams finished with the first probe failed and the
\* second succeeded
C21_Witness ==
    /\ hc_pc = "sleep"
    /\ upstream_addresses = <<"a", "b">>
    /\ probed = <<[ip |-> "a", res |-> "Err"], [ip |-> "b", res |-> "Ok"]>>
    /\ active_upstream_addresses = <<"b">>

\* the status code of a response: the token after the HTTP version
StatusOf(response) == IF Len(response) >= 3 THEN response[3] ELSE NONE

\* C22: basic_http_health_check returns Ok exactly when the connect, the
\* write and the read succeeded and the status line of the response carries
\* status 200, whatever the rest of the response contains.
C22_HealthyIffStatus200 ==
    probe.pc = "done" =>
        (probe.result = "Ok" <=>
            /\ probe.connect_ok
            /\ probe.write_ok
            /\ probe.read_ok
            /\ StatusOf(probe.response) = "200")

\* C23: one unresponsive upstream cannot stall the proxy for ever: a sweep
\* that has started always finishes, and a selection that has started always
\* returns, with a connection or with an error that sends the acceptor back
\* to accepting.
C23_NoIndefiniteStall ==
    /\ hc_pc \in {"sweep", "read"} ~> hc_pc = "sleep"
    /\ acc_pc = "connect" ~> acc_pc \in {"request", "accept"}

\* C24: with no upstream configured main() ends with exit(1) before it binds
\* the listening socket and before it spawns the health-check task or the
\* acceptor task: no connection is queued or accepted.
C24_EmptyUpstreamsRefuseToStart ==
    upstream_addresses = <<>> =>
        /\ main_pc \in {"args", "exit(1)"}
        /\ ~Listening
        /\ hc_pc = "unspawned"
        /\ acc_pc = "unspawned"
        /\ pending = 0

\* main() has ended with exit(1) on an empty upstream list
C24_Witness ==
    /\ upstream_addresses = <<>>
    /\ main_pc = "exit(1)"

\* how often address a occurs in sequence s
Count(s, a) == Cardinality({k \in 1..Len(s) : s[k] = a})

\* C25: a selection over n candidates makes at most n connect attempts: the
\* candidates left and the addresses tried always make up the original list,
\* entry for entry, so each failed attempt took exactly the tried entry out,
\* no address is tried more often than it occurs, and the attempt that
\* connects is the last one.
C25_AtMostOneAttemptPerCandidate ==
    acc_pc \in {"connect", "request"} =>
        /\ Len(attempts) <= Len(upstream_address_list)
        /\ \A a \in SelAddrs : Count(attempts, a) <= Count(upstream_address_list, a)
        /\ acc_pc = "connect" =>
              /\ \A a \in SelAddrs :
                    Count(candidates, a) + Count(attempts, a) = Count(upstream_address_list, a)
              /\ \A k \in 1..Len(attempts) : attempts[k] \notin reach
        /\ acc_pc = "request" =>
              /\ attempts # <<>>
              /\ Last(attempts) = upstream_stream
              /\ \A k \in 1..(Len(attempts) - 1) : attempts[k] \notin reach

\* the refusing address that occurs twice was tried twice, then the third
\* attempt connected
C25_Witness ==
    /\ acc_pc = "request"
    /\ Len(upstream_address_list) = 3
    /\ Count(upstream_address_list, "a") = 2
    /\ attempts = <<"a", "a", "b">>

\* C26: a session writes at most one error response (400 or 502) to its
\* client and nothing after it: an error response is the last thing in what
\* the client was sent.
C26_AtMostOneErrorResponse ==
    \A k \in 1..Len(client_out) :
        client_out[k] \in {"400", "502"} => k = Len(client_out)

\* the for loop of a sweep has run to its end at least once: its index stays
\* past the end of the list until the next sweep starts
SweepCompleted == hc_i = Len(upstream_addresses) + 1

\* C28: no session copies the active list before a health sweep has
\* completed: whenever handle_connection takes the lock and clones the list,
\* a sweep has run to its end.
C28_NoSelectionBeforeFirstSweep ==
    [][SessLock => SweepCompleted]_vars

====
